---- MODULE Spec2Model ----
(***************************************************************************)
(* Family-tree backend (backend/app/routes_tree.py): the member namespace  *)
(* with its guard documents, spouse links, the relation collection, tree   *)
(* assembly (GET /tree) and the save / unsaved / recover versioning.       *)
(*                                                                         *)
(* The document store is modelled collection by collection.  A request     *)
(* handler is one action; the requests of a specification run one after    *)
(* the other (no interleaving inside a handler) and the store never fails. *)
(* GET /tree is followed step by step: the load, each iteration of the     *)
(* loop over the roots, and each iteration, call and return of build.      *)
(* SpecRename runs PATCH /tree/members/{id} store call by store call in    *)
(* two workers, interleaved with whole create and delete requests;         *)
(* SpecSaves and SpecSpouses do the same for save and set_spouse, and      *)
(* SpecRecover for a recover next to one GET /tree.                        *)
(* SpecFault adds requests in which one store write raises.                *)
(* SpecLegacy starts from versions written before version numbers and the  *)
(* active version pointer existed.                                         *)
(***************************************************************************)
EXTENDS Integers, Sequences, FiniteSets, Bags, TLC

(* ------------------------------ bounds --------------------------------- *)

\* Member documents ever created (auto ids 1..MaxMembers, never reused) by the
\* requests of the member-namespace, spouse and move specifications.
MaxMembers == 3
\* Member documents ever created by the requests of the versioning specification.
MaxSavedMembers == 2
\* Relation documents held by the relations collection at one time.
MaxRelDocs == 2
\* TreeVersion documents ever written.
MaxVersions == 2
\* Saves of the version-numbering specification.
MaxSaves == 3
\* Clock readings: the wall clock is read as second*TicksPerSec + fraction.
MaxTick == 5
\* Distinct sub-second readings per second (stands for 10^6 microseconds).
TicksPerSec == 3
\* Tree assembly inputs: members of the space and relation documents scanned
\* by one GET /tree.
MaxTreeMembers == 3
MaxTreeRels == 3

(* --------------------------- value domains ----------------------------- *)

\* Python's None, for optional ids (spouse_id, parent_id, version_id).
NoneId == 0

\* A field left out of a PATCH body (model_dump(exclude_unset=True)).
UnsetId == -1
UnsetName == "<unset>"

MemberIds == 1..MaxMembers
SavedMemberIds == 1..MaxSavedMembers

\* Family spaces (tenants); NoSpace is a document without a space_id field.
Spaces == {"s1", "s2"}
NoSpace == "-"

\* ASCII codes of the two characters that can follow the seconds field of an
\* ISO-8601 string produced by to_iso_string.
CharDot == 46
CharZ == 90

(* ------------------------- generic helpers ----------------------------- *)

Put(f, k, v) == [x \in (DOMAIN f) \cup {k} |-> IF x = k THEN v ELSE f[x]]

Del(f, k) == [x \in (DOMAIN f) \ {k} |-> f[x]]

\* doc.update(...) of one field on an existing document
Upd(f, k, fld, v) == [f EXCEPT ![k] = [f[k] EXCEPT ![fld] = v]]

EmptyFn == [x \in {} |-> 0]

(* ------------------------------ names ---------------------------------- *)

\* Names accepted by CreateMember ([A-Za-z-]+) and, for PATCH (UpdateMember
\* has no name validator), a name with surrounding blanks.
CreateFirstNames == {"Ann", "ANN", "Bob"}
PatchFirstNames == CreateFirstNames \cup {" Ann "}
LastNames == {"Lee", "LEE"}

\* str.strip()
Strip(s) == IF s = " Ann " THEN "Ann" ELSE s

\* str.lower()
Lower(s) ==
  CASE s = "Ann" -> "ann"
    [] s = "ANN" -> "ann"
    [] s = "Bob" -> "bob"
    [] s = "Lee" -> "lee"
    [] s = "LEE" -> "lee"
    [] OTHER -> s

\* f"{first.strip().lower()}|{last.strip().lower()}"
name_key(first_name, last_name) == <<Lower(Strip(first_name)), Lower(Strip(last_name))>>

(* ------------------------------ state ---------------------------------- *)

VARIABLES
  members,        \* collection "members": id -> document
  member_keys,    \* collection "member_keys": <<space, name_key>> -> guard doc
  relations,      \* collection "relations": bag of documents
  tree_versions,  \* collection "tree_versions": sequence, index = document id
  active_version, \* tree_state/active_version: NoneId (absent) or version id
  auto_id,        \* member auto ids handed out so far
  now,            \* last wall-clock reading
  resp,           \* the response of the last request (observation)
  hist,           \* per version id: who saved it and that tenant's pairs then
  tree,           \* the state of one GET /tree evaluation
  calls           \* requests in progress, step by step: process -> its position

vars == <<members, member_keys, relations, tree_versions, active_version,
          auto_id, now, resp, hist, tree, calls>>

Resp(op, status, space) ==
  [op |-> op, status |-> status, space |-> space, detail |-> "",
   version_id |-> NoneId, version |-> 0, unsaved |-> FALSE, after |-> "",
   key |-> <<>>, first_name |-> ""]

TreeIdle == [pc |-> "idle"]

\* The request workers that can be inside a handler at the same time.
Procs == {"p1", "p2"}

CallIdle == [pc |-> "idle"]

InitStore ==
  /\ members = EmptyFn
  /\ member_keys = EmptyFn
  /\ relations = EmptyBag
  /\ tree_versions = <<>>
  /\ active_version = NoneId
  /\ auto_id = 0
  /\ now = -1
  /\ resp = Resp("init", 200, NoSpace)
  /\ hist = <<>>
  /\ tree = TreeIdle
  /\ calls = [p \in Procs |-> CallIdle]

(* --------------------------- create_member ----------------------------- *)

Exists(id) == id \in DOMAIN members

\* routes_tree.py 413-444: the checks before anything is written
create_member_status(space_id, first_name, last_name, spouse_id) ==
  IF spouse_id # NoneId /\ ~Exists(spouse_id) THEN 404
  ELSE IF spouse_id # NoneId /\ members[spouse_id].space_id # space_id THEN 400
  ELSE IF spouse_id # NoneId /\ members[spouse_id].spouse_id # NoneId THEN 409
  ELSE IF <<space_id, name_key(first_name, last_name)>> \in DOMAIN member_keys THEN 409
  ELSE 200

\* the guard write left out (mutation of create_member_keys)
create_member_keys_noguard(space_id, key, id) == member_keys

\* key_ref.create(...) then key_ref.set({"member_id", "space_id"})
create_member_keys(space_id, key, id) ==
  Put(member_keys, <<space_id, key>>, [member_id |-> id, space_id |-> space_id])

\* doc_ref.set(data) and the mutual spouse link
create_member_docs(space_id, first_name, last_name, spouse_id, id) ==
  LET doc == [space_id |-> space_id, first_name |-> first_name,
              last_name |-> last_name,
              name_key |-> name_key(first_name, last_name),
              spouse_id |-> spouse_id]
      withNew == Put(members, id, doc)
  IN IF spouse_id # NoneId THEN Upd(withNew, spouse_id, "spouse_id", id)
     ELSE withNew

CreateMember(space_id, first_name, last_name, spouse_id) ==
  LET st == create_member_status(space_id, first_name, last_name, spouse_id)
      id == auto_id + 1
  IN /\ IF st = 200
        THEN /\ members' = create_member_docs(space_id, first_name, last_name, spouse_id, id)
             /\ member_keys' = create_member_keys(space_id, name_key(first_name, last_name), id)
             /\ auto_id' = id
        ELSE UNCHANGED <<members, member_keys, auto_id>>
     /\ resp' = [Resp("create_member", st, space_id) EXCEPT
                   !.key = name_key(first_name, last_name), !.first_name = first_name]
     /\ UNCHANGED <<relations, tree_versions, active_version, now, hist, tree, calls>>

(* --------------------------- update_member ----------------------------- *)

\* The request body of PATCH /tree/members/{id}: each field a value or unset.
Patch(first_name, last_name, spouse_id) ==
  [first_name |-> first_name, last_name |-> last_name, spouse_id |-> spouse_id]

\* routes_tree.py 521-547: validation of a spouse_id that links
update_member_spouse_status(space_id, member_id, spouse_id) ==
  IF spouse_id = member_id THEN 400
  ELSE IF ~Exists(spouse_id) THEN 404
  ELSE IF members[spouse_id].space_id # space_id THEN 400
  ELSE IF members[spouse_id].spouse_id # NoneId
          /\ members[spouse_id].spouse_id # member_id THEN 409
  ELSE 200

\* routes_tree.py 548-557: clearing writes the current spouse's document first
update_member_clear(member_id, patch) ==
  LET cs == members[member_id].spouse_id
  IN IF patch.spouse_id = NoneId /\ cs # NoneId /\ Exists(cs)
     THEN Upd(members, cs, "spouse_id", NoneId)
     ELSE members

\* the ownership test left out (mutation of update_member_rename_conflict)
update_member_rename_conflict_never(space_id, member_id, new_key) == FALSE

\* routes_tree.py 585-597: reserving the new key fails for another owner
update_member_rename_conflict(space_id, member_id, new_key) ==
  /\ new_key # members[member_id].name_key
  /\ <<space_id, new_key>> \in DOMAIN member_keys
  /\ member_keys[<<space_id, new_key>>].member_id # member_id

\* routes_tree.py 585-606: reserve the new key, drop the old one
update_member_keys(space_id, member_id, old_key, new_key) ==
  IF new_key = old_key THEN member_keys
  ELSE LET reserved ==
             IF <<space_id, new_key>> \in DOMAIN member_keys THEN member_keys
             ELSE Put(member_keys, <<space_id, new_key>>,
                      [member_id |-> member_id, space_id |-> space_id])
       IN Del(reserved, <<space_id, old_key>>)

\* The whole handler: [status, members, member_keys] after the request.
update_member(space_id, member_id, patch) ==
  IF ~Exists(member_id)
  THEN [status |-> 404, members |-> members, member_keys |-> member_keys]
  ELSE IF members[member_id].space_id # space_id
  THEN [status |-> 403, members |-> members, member_keys |-> member_keys]
  ELSE
  LET cur == members[member_id]
      linking == patch.spouse_id # UnsetId /\ patch.spouse_id # NoneId
      sst == IF linking
             THEN update_member_spouse_status(space_id, member_id, patch.spouse_id)
             ELSE 200
      m1 == update_member_clear(member_id, patch)
      new_first == IF patch.first_name = UnsetName THEN cur.first_name ELSE patch.first_name
      new_last == IF patch.last_name = UnsetName THEN cur.last_name ELSE patch.last_name
      old_key == cur.name_key
      new_key == name_key(new_first, new_last)
      doc == [space_id |-> cur.space_id, first_name |-> new_first,
              last_name |-> new_last, name_key |-> new_key,
              spouse_id |-> IF patch.spouse_id = UnsetId THEN m1[member_id].spouse_id
                            ELSE patch.spouse_id]
      m2 == [m1 EXCEPT ![member_id] = doc]
      m3 == IF linking THEN Upd(m2, patch.spouse_id, "spouse_id", member_id) ELSE m2
  IN IF sst # 200
     THEN [status |-> sst, members |-> members, member_keys |-> member_keys]
     ELSE IF update_member_rename_conflict(space_id, member_id, new_key)
     THEN [status |-> 409, members |-> m1, member_keys |-> member_keys]
     ELSE [status |-> 200, members |-> m3,
           member_keys |-> update_member_keys(space_id, member_id, old_key, new_key)]

UpdateMember(space_id, member_id, patch) ==
  LET r == update_member(space_id, member_id, patch)
  IN /\ members' = r.members
     /\ member_keys' = r.member_keys
     /\ resp' = Resp("update_member", r.status, space_id)
     /\ UNCHANGED <<relations, tree_versions, active_version, auto_id, now, hist, tree, calls>>

(* --------------------------- delete_member ----------------------------- *)

\* Relation documents as records; the bag counts equal documents.
Rel(parent_id, child_id, space_id) ==
  [parent_id |-> parent_id, child_id |-> child_id, space_id |-> space_id]

RelDocs == BagToSet(relations)

\* the sub-bag of the documents satisfying keep(_)
FilterBag(B, keep(_)) ==
  LET S == {r \in BagToSet(B) : keep(r)} IN [r \in S |-> B[r]]

delete_member_status(space_id, member_id) ==
  IF ~Exists(member_id) THEN 404
  ELSE IF members[member_id].space_id # space_id THEN 403
  ELSE IF \E r \in RelDocs : r.parent_id = member_id /\ r.space_id = space_id THEN 400
  ELSE 200

\* the guard kept (mutation of delete_member_keys)
delete_member_keys_kept(space_id, member_id) == member_keys

\* routes_tree.py 656-663
delete_member_keys(space_id, member_id) ==
  Del(member_keys, <<space_id, members[member_id].name_key>>)

\* routes_tree.py 647-654
delete_member_relations(space_id, member_id) ==
  LET keep(r) == ~(r.child_id = member_id /\ r.space_id = space_id)
  IN FilterBag(relations, keep)

DeleteMember(space_id, member_id) ==
  LET st == delete_member_status(space_id, member_id)
  IN /\ IF st = 200
        THEN /\ relations' = delete_member_relations(space_id, member_id)
             /\ member_keys' = delete_member_keys(space_id, member_id)
             /\ members' = Del(members, member_id)
        ELSE UNCHANGED <<relations, member_keys, members>>
     /\ resp' = Resp("delete_member", st, space_id)
     /\ UNCHANGED <<tree_versions, active_version, auto_id, now, hist, tree, calls>>

(* ----------------------------- set_spouse ------------------------------ *)

set_spouse_status(space_id, member_id, spouse_id) ==
  IF ~Exists(member_id) THEN 404
  ELSE IF members[member_id].space_id # space_id THEN 403
  ELSE IF spouse_id = NoneId /\ members[member_id].spouse_id # NoneId THEN 200
  ELSE IF spouse_id # NoneId /\ ~Exists(spouse_id) THEN 404
  ELSE IF spouse_id # NoneId /\ members[spouse_id].space_id # space_id THEN 403
  ELSE 200

\* routes_tree.py 696-720: the two Member writes of an accepted request
set_spouse_docs(space_id, member_id, spouse_id) ==
  LET cs == members[member_id].spouse_id
  IN IF spouse_id = NoneId /\ cs # NoneId
     THEN LET m1 == IF Exists(cs) /\ members[cs].space_id = space_id
                    THEN Upd(members, cs, "spouse_id", NoneId)
                    ELSE members
          IN Upd(m1, member_id, "spouse_id", NoneId)
     ELSE LET m1 == IF spouse_id # NoneId
                    THEN Upd(members, spouse_id, "spouse_id", member_id)
                    ELSE members
          IN Upd(m1, member_id, "spouse_id", spouse_id)

SetSpouse(space_id, member_id, spouse_id) ==
  LET st == set_spouse_status(space_id, member_id, spouse_id)
  IN /\ members' = IF st = 200 THEN set_spouse_docs(space_id, member_id, spouse_id)
                   ELSE members
     /\ resp' = Resp("set_spouse", st, space_id)
     /\ UNCHANGED <<member_keys, relations, tree_versions, active_version, auto_id,
                    now, hist, tree, calls>>

(* -------------------------------- move --------------------------------- *)

\* by_parent.get(cur, []): the children of cur in the tenant's relations
by_parent(space_id, cur) ==
  {r.child_id : r \in {x \in RelDocs : x.space_id = space_id /\ x.parent_id = cur
                                        /\ x.child_id # NoneId}}

RECURSIVE descendants_loop(_, _, _)
\* the while loop of descendants(): stack is the work list, result the set
descendants_loop(space_id, stack, result) ==
  IF stack = {} THEN result
  ELSE LET cur == CHOOSE x \in stack : TRUE
           new == {c \in by_parent(space_id, cur) : c # NoneId /\ c \notin result}
       IN descendants_loop(space_id, (stack \ {cur}) \cup new, result \cup new)

descendants(space_id, start) == descendants_loop(space_id, {start}, {})

\* the descendant test left out (mutation of move_would_cycle)
move_would_cycle_unchecked(space_id, child_id, new_parent_id) == FALSE

\* routes_tree.py 788-790
move_would_cycle(space_id, child_id, new_parent_id) ==
  new_parent_id # NoneId /\ new_parent_id \in descendants(space_id, child_id)

\* routes_tree.py 732-790: the HTTPException raised, "" when the move is accepted
move_detail(space_id, child_id, new_parent_id) ==
  IF ~Exists(child_id) THEN "Child member not found"
  ELSE IF members[child_id].space_id # space_id
  THEN "Child member not found in current family space"
  ELSE IF new_parent_id # NoneId /\ ~Exists(new_parent_id)
  THEN "Parent member not found"
  ELSE IF new_parent_id # NoneId /\ members[new_parent_id].space_id # space_id
  THEN "Parent member not found in current family space"
  ELSE IF new_parent_id = child_id THEN "Cannot set a member as their own parent"
  ELSE IF new_parent_id # NoneId /\ members[child_id].spouse_id # NoneId
          /\ members[child_id].spouse_id = new_parent_id
  THEN "Cannot set spouse as parent"
  ELSE IF move_would_cycle(space_id, child_id, new_parent_id)
  THEN "Move would create a cycle"
  ELSE ""

\* the status code of each HTTPException of move
move_status(space_id, child_id, new_parent_id) ==
  LET d == move_detail(space_id, child_id, new_parent_id)
  IN IF d = "" THEN 200
     ELSE IF d \in {"Child member not found", "Parent member not found"} THEN 404
     ELSE IF d \in {"Child member not found in current family space",
                    "Parent member not found in current family space"} THEN 403
     ELSE 400

\* routes_tree.py 792-804: drop the child's relations, add the new one
move_relations(space_id, child_id, new_parent_id) ==
  delete_member_relations(space_id, child_id)
    (+) SetToBag({Rel(new_parent_id, child_id, space_id)})

Move(space_id, child_id, new_parent_id) ==
  LET st == move_status(space_id, child_id, new_parent_id)
  IN /\ st = 200 => BagCardinality(move_relations(space_id, child_id, new_parent_id))
                      <= MaxRelDocs
     /\ relations' = IF st = 200 THEN move_relations(space_id, child_id, new_parent_id)
                     ELSE relations
     /\ resp' = [Resp("move", st, space_id) EXCEPT
                   !.detail = move_detail(space_id, child_id, new_parent_id)]
     /\ UNCHANGED <<members, member_keys, tree_versions, active_version, auto_id,
                    now, hist, tree, calls>>

(* ----------------------------- snapshots ------------------------------- *)

\* The rank of str(x) among the strings compared by the snapshot sort: str(None)
\* is "None"; auto id 1 stands for an id that sorts before "None", the other ids
\* for ids that sort after it.
StrRank(x) == IF x = NoneId THEN 2 ELSE IF x = 1 THEN 1 ELSE x + 1

\* key=lambda x: (str(parent_id), str(child_id))
KeyLess(r1, r2) ==
  \/ StrRank(r1.parent_id) < StrRank(r2.parent_id)
  \/ /\ r1.parent_id = r2.parent_id
     /\ StrRank(r1.child_id) < StrRank(r2.child_id)

PairOf(r) == [parent_id |-> r.parent_id, child_id |-> r.child_id]

RECURSIVE SumCopies(_, _, _)
SumCopies(B, pair, spaces) ==
  IF spaces = {} THEN 0
  ELSE LET sp == CHOOSE x \in spaces : TRUE
       IN CopiesIn(Rel(pair.parent_id, pair.child_id, sp), B)
            + SumCopies(B, pair, spaces \ {sp})

\* every relation document of the collection (no space filter), reduced to
\* {"parent_id", "child_id"}
StripSpace(B) ==
  [p \in {PairOf(r) : r \in BagToSet(B)} |-> SumCopies(B, p, Spaces \cup {NoSpace})]

RECURSIVE SortPairs(_)
\* rels.sort(...): the documents in ascending key order
SortPairs(B) ==
  IF BagToSet(B) = {} THEN <<>>
  ELSE LET m == CHOOSE r \in BagToSet(B) : \A o \in BagToSet(B) : ~KeyLess(o, r)
       IN <<m>> \o SortPairs(B (-) SetToBag({m}))

snapshot_relations == SortPairs(StripSpace(relations))

(* --------------------------- clock and order --------------------------- *)

\* to_iso_string(utc_now()): isoformat() leaves the fraction out when it is 0,
\* so the seconds are followed by "Z" or by "." fraction "Z".
to_iso_string(t) ==
  LET sec == t \div TicksPerSec
      frac == t % TicksPerSec
  IN IF frac = 0 THEN <<sec, CharZ>> ELSE <<sec, CharDot, frac, CharZ>>

RECURSIVE StrLess(_, _)
\* string comparison of two created_at values, field by field
StrLess(a, b) ==
  IF a = <<>> THEN b # <<>>
  ELSE IF b = <<>> THEN FALSE
  ELSE IF Head(a) # Head(b) THEN Head(a) < Head(b)
  ELSE StrLess(Tail(a), Tail(b))

\* order_by("created_at", DESCENDING).limit(1): NoneId when there is no version
get_latest_version ==
  IF tree_versions = <<>> THEN NoneId
  ELSE CHOOSE v \in DOMAIN tree_versions :
         \A o \in DOMAIN tree_versions :
           o = v \/ StrLess(tree_versions[o].created_at, tree_versions[v].created_at)

next_version_number ==
  IF get_latest_version = NoneId THEN 1
  ELSE tree_versions[get_latest_version].version + 1

(* ------------------------ save / unsaved / recover --------------------- *)

\* The {parent_id, child_id} pairs of the relations whose space_id is t.
TenantPairs(t) == {PairOf(r) : r \in {x \in RelDocs : x.space_id = t}}

\* the pointer write left out (mutation of save_tree_active)
save_tree_active_kept(version_id) == active_version

\* routes_tree.py 323: tree_state/active_version := the new version
save_tree_active(version_id) == version_id

\* routes_tree.py 316-320: the TreeVersion document that save writes
save_tree_doc(created_at) ==
  [created_at |-> created_at, relations |-> snapshot_relations,
   version |-> next_version_number]

\* utc_now is the clock reading of this request, later than the last one
SaveTree(space_id, utc_now) ==
  /\ utc_now > now
  /\ now' = utc_now
  /\ tree_versions' = Append(tree_versions, save_tree_doc(to_iso_string(utc_now)))
  /\ active_version' = save_tree_active(Len(tree_versions) + 1)
  /\ hist' = Append(hist, [space |-> space_id, pairs |-> TenantPairs(space_id)])
  /\ resp' = [Resp("save", 200, space_id) EXCEPT
                !.version_id = Len(tree_versions) + 1, !.version = next_version_number]
  /\ UNCHANGED <<members, member_keys, relations, auto_id, tree, calls>>

\* routes_tree.py 343-349: delete every relation, re-insert the snapshot's items
recover_tree_relations(version_id) ==
  LET rels == tree_versions[version_id].relations
      Count(p) == Cardinality({i \in DOMAIN rels : rels[i] = p})
      docs == {Rel(rels[i].parent_id, rels[i].child_id, NoSpace) : i \in DOMAIN rels}
  IN [d \in docs |-> Count(PairOf(d))]

\* the pointer left as it was (mutation of recover_tree_active)
recover_tree_active_kept(version_id) == active_version

\* routes_tree.py 352: tree_state/active_version := the recovered version
recover_tree_active(version_id) == version_id

RecoverTree(space_id, version_id) ==
  LET found == version_id \in DOMAIN tree_versions
  IN /\ relations' = IF found THEN recover_tree_relations(version_id) ELSE relations
     /\ active_version' = IF found THEN recover_tree_active(version_id) ELSE active_version
     /\ resp' = [Resp("recover", IF found THEN 200 ELSE 404, space_id) EXCEPT
                   !.version_id = version_id]
     /\ UNCHANGED <<members, member_keys, tree_versions, auto_id, now, hist, tree, calls>>

\* the comparison reduced to the number of relations (mutation of unsaved_differs)
unsaved_differs_by_count(saved_relations, current_relations) ==
  Len(saved_relations) # Len(current_relations)

\* routes_tree.py 278, 307: saved_relations != current_relations
unsaved_differs(saved_relations, current_relations) ==
  saved_relations # current_relations

\* What GET /tree/unsaved returns in the current state.
unsaved_result ==
  IF active_version = NoneId
  THEN IF get_latest_version = NoneId THEN FALSE
       ELSE unsaved_differs(tree_versions[get_latest_version].relations,
                            snapshot_relations)
  ELSE IF active_version \notin DOMAIN tree_versions THEN TRUE
  ELSE unsaved_differs(tree_versions[active_version].relations, snapshot_relations)

UnsavedChanges(space_id) ==
  /\ active_version' = IF active_version = NoneId THEN get_latest_version
                       ELSE active_version
  /\ resp' = [Resp("unsaved", 200, space_id) EXCEPT !.unsaved = unsaved_result,
                !.after = resp.op]
  /\ UNCHANGED <<members, member_keys, relations, tree_versions, auto_id, now,
                 hist, tree, calls>>

(* ------------------- relations and versions: specification -------------- *)

\* One fixed name per created member: names play no part in these requests.
NameOfId(id) ==
  IF id = 1 THEN "Ann" ELSE IF id = 2 THEN "Bob" ELSE IF id = 3 THEN "cat" ELSE "dan"

Next ==
  \/ \E t \in Spaces :
       /\ auto_id < MaxSavedMembers
       /\ CreateMember(t, NameOfId(auto_id + 1), "Lee", NoneId)
  \/ \E t \in Spaces, c \in SavedMemberIds, p \in {NoneId} \cup SavedMemberIds :
       Move(t, c, p)
  \/ \E t \in Spaces, id \in SavedMemberIds : DeleteMember(t, id)
  \/ \E t \in Spaces : Len(tree_versions) < MaxVersions /\ SaveTree(t, now + 1)
  \/ \E t \in Spaces, v \in 1..MaxVersions : RecoverTree(t, v)
  \/ \E t \in Spaces : UnsavedChanges(t)

Spec == InitStore /\ [][Next]_vars

(* ------------------- relations and versions: claims -------------------- *)

\* C4: once save() returned version v while tenant T's relations had the pair
\* set S, a successful recover(v) by T (after any edits) leaves T's relations
\* with exactly the pair set S.
C4_RecoverRestoresTenantPairs ==
  (resp.op = "recover" /\ resp.status = 200 /\ hist[resp.version_id].space = resp.space)
    => TenantPairs(resp.space) = hist[resp.version_id].pairs

\* The relation documents of the child in the tenant are exactly one document
\* that already names new_parent_id as the parent.
AlreadyChildOf(space_id, child_id, new_parent_id) ==
  BagCardinality(relations (-) delete_member_relations(space_id, child_id)) = 1
  /\ BagIn(Rel(new_parent_id, child_id, space_id), relations)

\* C6 as claimed: directly after a save, every successful move makes
\* isUnsaved() true.
C6_EveryMoveMakesUnsaved ==
  [][(resp.op = "save" /\ resp'.op = "move" /\ resp'.status = 200) => unsaved_result']_vars

\* C6 as amended: directly after a save, a successful move(child, new_parent)
\* makes isUnsaved() true unless the child's only relation document already
\* named new_parent as its parent (then it stays false); a save() after a
\* move makes isUnsaved() false again.
C6_MoveMakesUnsaved ==
  [][/\ \A t \in Spaces, c \in SavedMemberIds, p \in {NoneId} \cup SavedMemberIds :
          (resp.op = "save" /\ Move(t, c, p) /\ resp'.status = 200)
            => (unsaved_result' <=> ~AlreadyChildOf(t, c, p))
     /\ (resp.op = "move" /\ resp'.op = "save") => ~unsaved_result'
    ]_vars

\* Saved, moved to another parent: unsaved.
C6_Witness ==
  /\ resp.op = "move" /\ resp.status = 200
  /\ active_version # NoneId
  /\ unsaved_result
  /\ \E r \in RelDocs : r.parent_id # NoneId /\ r.space_id = resp.space

\* C7: an isUnsaved() that directly follows a save() returns false.
C7_SavedAfterSave ==
  [][(resp.op = "save" /\ resp'.op = "unsaved") => ~resp'.unsaved]_vars

\* isUnsaved() answered false right after the second save, taken while the
\* collection held two equal relation documents and another version was active.
C7_Witness ==
  /\ resp.op = "unsaved" /\ resp.after = "save" /\ ~resp.unsaved
  /\ active_version = 2
  /\ \E r \in RelDocs : relations[r] + CopiesIn(Rel(r.parent_id, r.child_id, NoSpace), relations) >= 2
                         /\ r.space_id # NoSpace

\* The relation documents in B of the tenants other than t.
OtherTenantRelations(B, t) == FilterBag(B, LAMBDA r : r.space_id \in Spaces \ {t})

\* C10: a save, recover or isUnsaved request of tenant A leaves every relation
\* of another tenant and the active version pointer as they were.
C10_VersioningIsTenantScoped ==
  [][(resp'.op \in {"save", "recover", "unsaved"} /\ resp'.status = 200)
       => /\ OtherTenantRelations(relations', resp'.space)
             = OtherTenantRelations(relations, resp'.space)
          /\ (\E v \in DOMAIN hist : hist[v].space # resp'.space)
               => active_version' = active_version
    ]_vars


\* The relation documents in B of tenant t.
TenantRelations(B, t) == FilterBag(B, LAMBDA r : r.space_id = t)

\* C11: a recover requested by tenant A that names a version saved by another
\* tenant B is rejected (not 200) and leaves tenant A's relations and the
\* active version pointer as they were.
C11_CrossTenantRecoverRejected ==
  [][(resp'.op = "recover" /\ resp'.version_id \in DOMAIN hist
      /\ hist[resp'.version_id].space # resp'.space)
       => /\ resp'.status # 200
          /\ TenantRelations(relations', resp'.space) = TenantRelations(relations, resp'.space)
          /\ active_version' = active_version
    ]_vars

NextSave ==
  \E t \in Spaces, tick \in 0..MaxTick :
    Len(tree_versions) < MaxSaves /\ SaveTree(t, tick)

SpecSave == InitStore /\ [][NextSave]_vars

\* C8: N sequential save() calls of one tenant, starting with no version,
\* return the version numbers 1, 2, ..., N in call order.
C8_SequentialVersionNumbers ==
  (\A i, j \in DOMAIN hist : hist[i].space = hist[j].space)
    => \A i \in DOMAIN tree_versions : tree_versions[i].version = i

(* ----------------------- spouse links: specification ------------------ *)

\* Members are created without a spouse; then setSpouse requests (link to
\* another member, or clear) run one after the other.
NextSpouse ==
  \/ \E t \in Spaces :
       /\ auto_id < MaxMembers
       /\ CreateMember(t, NameOfId(auto_id + 1), "Lee", NoneId)
  \/ \E t \in Spaces, id \in MemberIds :
       \E sp \in ({NoneId} \cup MemberIds) \ {id} : SetSpouse(t, id, sp)

SpecSpouse == InitStore /\ [][NextSpouse]_vars

\* C5: after any sequence of sequential setSpouse calls, A.spouse_id = B.id
\* exactly when B.spouse_id = A.id, for all members A and B.
C5_SpouseSymmetry ==
  \A a, b \in DOMAIN members :
    (members[a].spouse_id = b) <=> (members[b].spouse_id = a)

(* --------------------------- move: specification ------------------------ *)

NextMove ==
  \/ \E t \in Spaces :
       /\ auto_id < MaxMembers
       /\ CreateMember(t, NameOfId(auto_id + 1), "Lee", NoneId)
  \/ \E t \in Spaces, id \in MemberIds :
       \E sp \in ({NoneId} \cup MemberIds) \ {id} : SetSpouse(t, id, sp)
  \/ \E t \in Spaces, c \in MemberIds, p \in {NoneId} \cup MemberIds : Move(t, c, p)

SpecMove == InitStore /\ [][NextMove]_vars

IsMember(t, id) == id \in DOMAIN members /\ members[id].space_id = t

RECURSIVE ReachableFrom(_, _, _)
\* the ids reachable from the set S over at most n parent-to-child relations
\* of tenant t
ReachableFrom(t, S, n) ==
  IF n = 0 THEN S
  ELSE ReachableFrom(t, S \cup {pr.child_id : pr \in {x \in TenantPairs(t) : x.parent_id \in S}},
                     n - 1)

IsDescendant(t, y, x) ==
  \E pr \in TenantPairs(t) :
    pr.parent_id = x /\ y \in ReachableFrom(t, {pr.child_id}, MaxRelDocs)

\* C9: for members X and Y of the tenant, move(X, Y) is answered 400 when
\* Y = X, Y is X's spouse or Y is a descendant of X; and no rejected move
\* changes the relation collection.
C9_RejectedMoveChangesNothing ==
  [][/\ \A t \in Spaces, x \in MemberIds, y \in MemberIds :
          (/\ Move(t, x, y)
           /\ IsMember(t, x) /\ IsMember(t, y)
           /\ (y = x \/ members[x].spouse_id = y \/ IsDescendant(t, y, x)))
            => (resp'.status = 400 /\ relations' = relations)
     /\ (resp'.op = "move" /\ resp'.status # 200) => relations' = relations
    ]_vars

\* A move under a grandchild was rejected as a cycle, relations as before.
C9_Witness ==
  /\ resp.op = "move" /\ resp.status = 400
  /\ resp.detail = "Move would create a cycle"
  /\ \E r1, r2 \in RelDocs :
       /\ r1.space_id = resp.space /\ r2.space_id = resp.space
       /\ r1.child_id = r2.parent_id

(* ----------------------- spouse links: more claims --------------------- *)

\* C14: setSpouse(t, m, sp) that links m to a member sp whose spouse_id
\* already names a member other than m fails with Conflict (409) and changes
\* no Member document.
C14_LinkToPairedIsConflict ==
  [][\A t \in Spaces, m \in MemberIds, sp \in MemberIds :
       (/\ SetSpouse(t, m, sp)
        /\ IsMember(t, m) /\ IsMember(t, sp)
        /\ members[sp].spouse_id # NoneId /\ members[sp].spouse_id # m)
         => (resp'.status = 409 /\ members' = members)
    ]_vars

\* C15: setSpouse(t, m, null) sets m's spouse_id to null; the former
\* spouse's spouse_id is set to null when it pointed back to m, and the former
\* spouse's document is left as it was when it names a different member.
C15_ClearUnlinksOnlyBackPointer ==
  [][\A t \in Spaces, m \in MemberIds :
       (SetSpouse(t, m, NoneId) /\ IsMember(t, m))
         => /\ members'[m].spouse_id = NoneId
            /\ LET cs == members[m].spouse_id
               IN (cs # NoneId /\ cs # m /\ Exists(cs))
                    => IF members[cs].spouse_id = m
                       THEN members'[cs].spouse_id = NoneId
                       ELSE members'[cs] = members[cs]
    ]_vars

(* ------------------ spouse links of all three requests ------------------ *)

\* Every request that can write a spouse_id: POST members with spouse_id,
\* PATCH members/{id} with spouse_id, POST members/{id}/spouse; a member may
\* be named as its own spouse.
NextLink ==
  \/ \E t \in Spaces, sp \in {NoneId} \cup MemberIds :
       /\ auto_id < MaxMembers
       /\ CreateMember(t, NameOfId(auto_id + 1), "Lee", sp)
  \/ \E t \in Spaces, id \in MemberIds, sp \in {NoneId} \cup MemberIds :
       UpdateMember(t, id, Patch(UnsetName, UnsetName, sp))
  \/ \E t \in Spaces, id \in MemberIds, sp \in {NoneId} \cup MemberIds :
       SetSpouse(t, id, sp)

SpecLink == InitStore /\ [][NextLink]_vars

\* C16: setSpouse(t, m, m) is rejected and leaves m unchanged, and after any
\* sequence of spouse-linking requests no member's spouse_id is its own id.
C16_NoSelfSpouse ==
  [][/\ \A t \in Spaces, m \in MemberIds :
          (SetSpouse(t, m, m) /\ IsMember(t, m))
            => (resp'.status # 200 /\ members' = members)
     /\ \A m \in DOMAIN members' : members'[m].spouse_id # m
    ]_vars

(* ------------------- member namespace: specification ------------------- *)

NextNames ==
  \/ \E t \in Spaces, fn \in CreateFirstNames, ln \in LastNames :
       /\ auto_id < MaxMembers
       /\ CreateMember(t, fn, ln, NoneId)
  \/ \E t \in Spaces, id \in MemberIds, fn \in PatchFirstNames \cup {UnsetName},
        ln \in LastNames \cup {UnsetName} :
       UpdateMember(t, id, Patch(fn, ln, UnsetId))
  \/ \E t \in Spaces, id \in MemberIds : DeleteMember(t, id)

SpecNames == InitStore /\ [][NextNames]_vars

MembersWithKey(t, key) ==
  {m \in DOMAIN members : members[m].space_id = t /\ members[m].name_key = key}

UniqueNameKeys ==
  \A t \in Spaces : \A m1, m2 \in DOMAIN members :
    (members[m1].space_id = t /\ members[m2].space_id = t
     /\ members[m1].name_key = members[m2].name_key) => m1 = m2

\* A create-member step whose normalized name is already held by a member of
\* the tenant (and names no spouse): it is a 409, no Member document changes
\* and exactly one member holds the key afterwards.
CreateDuplicateRejected ==
  (resp'.op = "create_member" /\ MembersWithKey(resp'.space, resp'.key) # {})
    => /\ resp'.status = 409
       /\ members' = members
       /\ Cardinality(MembersWithKey(resp'.space, resp'.key)) = 1

\* C1: within a tenant no two Member documents share a name_key after any
\* sequence of create-member, rename and delete-member requests, and creating
\* a member under a normalized name that is taken is rejected (409) and leaves
\* exactly one member with that key.
C1_UniqueNameKey == [][UniqueNameKeys' /\ CreateDuplicateRejected]_vars

\* A 409 for a name that differs from the holder's only by letter case.
C1_Witness ==
  /\ resp.op = "create_member" /\ resp.status = 409
  /\ \E m \in MembersWithKey(resp.space, resp.key) :
       members[m].first_name # resp.first_name
  /\ \E m \in DOMAIN members : members[m].space_id # resp.space
                               /\ members[m].name_key = resp.key

(* ------------------------------ get_tree ------------------------------- *)

SeqToSet(s) == {s[i] : i \in 1..Len(s)}

\* list(dict.fromkeys(s)): the first occurrence of each element, order kept
RECURSIVE dict_fromkeys(_)
dict_fromkeys(s) ==
  IF Len(s) = 0 THEN <<>>
  ELSE LET front == dict_fromkeys(SubSeq(s, 1, Len(s) - 1))
           last == s[Len(s)]
       IN IF last \in SeqToSet(front) THEN front ELSE Append(front, last)

\* members.keys(): the ids of the loaded documents in stream order
RECURSIVE members_keys(_)
members_keys(ids) ==
  IF ids = {} THEN <<>>
  ELSE LET m == CHOOSE x \in ids : \A y \in ids : x <= y
       IN <<m>> \o members_keys(ids \ {m})

\* routes_tree.py 56-57: the member documents of the space
load_members(space_id) == {id \in DOMAIN members : members[id].space_id = space_id}

\* routes_tree.py 59-60: the relation documents of the space, streamed in
\* any order
load_relations(space_id) ==
  LET B == FilterBag(relations, LAMBDA r : r.space_id = space_id)
      n == BagCardinality(B)
  IN IF n = 0 THEN {<<>>}
     ELSE {s \in [1..n -> BagToSet(B)] :
             \A d \in BagToSet(B) : Cardinality({i \in 1..n : s[i] = d}) = B[d]}

\* routes_tree.py 62-69: parent -> children, None children dropped, deduplicated
children_list(scan, parent) ==
  LET sel == SelectSeq(scan, LAMBDA r : r.parent_id = parent /\ r.child_id # NoneId)
  IN dict_fromkeys([i \in 1..Len(sel) |-> sel[i].child_id])

children_dict(scan) ==
  [p \in {scan[i].parent_id : i \in 1..Len(scan)} |-> children_list(scan, p)]

\* children.get(key, [])
children_get(children, key) == IF key \in DOMAIN children THEN children[key] ELSE <<>>

\* routes_tree.py 71-75: the members with a truthy spouse_id
spouse_of_dict(ids) ==
  [id \in {m \in ids : members[m].spouse_id # NoneId} |-> members[id].spouse_id]

\* spouse_of.get(key)
spouse_of_get(spouse_of, key) == IF key \in DOMAIN spouse_of THEN spouse_of[key] ELSE NoneId

\* routes_tree.py 123-135
related_children(children) == UNION {SeqToSet(children[p]) : p \in DOMAIN children}

explicit_roots(children) == children_get(children, NoneId)

no_relation(ids, children) ==
  SelectSeq(members_keys(ids),
            LAMBDA mid : mid \notin related_children(children)
                         /\ mid \notin SeqToSet(explicit_roots(children)))

filtered_no_relation(ids, children, spouse_of) ==
  SelectSeq(no_relation(ids, children),
            LAMBDA mid : ~(spouse_of_get(spouse_of, mid) # NoneId
                           /\ spouse_of_get(spouse_of, mid) \in related_children(children)))

root_ids(ids, children, spouse_of) ==
  dict_fromkeys(explicit_roots(children) \o filtered_no_relation(ids, children, spouse_of))

\* routes_tree.py 79-95: a call of build(node_id, path) up to its for loop;
\* todo is what is left of combined_children, cur the child whose subtree a
\* nested call is building
build_enter(t, node_id, path) ==
  IF node_id \in path
  THEN [node_id |-> node_id, path |-> path, todo |-> <<>>, built |-> <<>>,
        local_seen |-> {}, cur |-> NoneId]
  ELSE LET parent_partner_id == spouse_of_get(t.spouse_of, node_id)
       IN [node_id |-> node_id, path |-> path \cup {node_id},
           todo |-> dict_fromkeys(children_get(t.children, node_id)
                                  \o children_get(t.children, parent_partner_id)),
           built |-> <<>>, local_seen |-> {}, cur |-> NoneId]

\* routes_tree.py 98-108: the continue conditions of the for loop
build_skips(t, f, cid) ==
  \/ cid = spouse_of_get(t.spouse_of, f.node_id)
  \/ cid \in t.rendered
  \/ cid \in f.local_seen
  \/ cid \in f.path
  \/ cid \notin t.member_ids

\* routes_tree.py 109-115 and 144-149: the spouse attached to a node
attached_spouse(t, id) ==
  LET partner_id == spouse_of_get(t.spouse_of, id)
  IN IF partner_id # NoneId /\ partner_id \in t.member_ids THEN partner_id ELSE NoneId

tree_node(t, id, kids) ==
  [member |-> id, children |-> kids, spouse |-> attached_spouse(t, id)]

\* the ids a finished node adds to local_seen / seen_roots and to rendered
node_ids(t, id) == {id} \cup ({attached_spouse(t, id)} \ {NoneId})

\* routes_tree.py 48-77, 123-138: load the space and compute the root ids
GetTreeLoad(space_id) ==
  /\ tree.pc = "idle"
  /\ \E scan \in load_relations(space_id) :
       LET ids == load_members(space_id)
           children == children_dict(scan)
           spouse_of == spouse_of_dict(ids)
       IN tree' = [pc |-> "roots", space |-> space_id, member_ids |-> ids,
                   children |-> children, spouse_of |-> spouse_of,
                   rendered |-> {}, root_ids |-> root_ids(ids, children, spouse_of),
                   ri |-> 1, roots |-> <<>>, seen_roots |-> {}, stack |-> <<>>]
  /\ UNCHANGED <<members, member_keys, relations, tree_versions, active_version,
                 auto_id, now, resp, hist, calls>>

\* routes_tree.py 139-144 and 153: one iteration of the loop over root_ids up
\* to the call of build(rid), or the return of the forest
GetTreeRoot ==
  /\ tree.pc = "roots"
  /\ IF tree.ri > Len(tree.root_ids)
     THEN /\ tree' = [tree EXCEPT !.pc = "done"]
          /\ resp' = Resp("get_tree", 200, tree.space)
     ELSE LET rid == tree.root_ids[tree.ri]
          IN IF rid \in tree.rendered \/ rid \in tree.seen_roots
             THEN /\ tree' = [tree EXCEPT !.ri = @ + 1]
                  /\ UNCHANGED resp
             ELSE IF rid \notin tree.member_ids
             THEN \* members[rid] raises KeyError
                  /\ tree' = [tree EXCEPT !.pc = "error"]
                  /\ resp' = Resp("get_tree", 500, tree.space)
             ELSE /\ tree' = [tree EXCEPT !.pc = "build",
                                          !.stack = <<build_enter(tree, rid, {})>>]
                  /\ UNCHANGED resp
  /\ UNCHANGED <<members, member_keys, relations, tree_versions, active_version,
                 auto_id, now, hist, calls>>

\* routes_tree.py 96-119 and 145-152: one iteration of the for loop of the
\* innermost call of build, or its return to the caller
GetTreeBuild ==
  /\ tree.pc = "build"
  /\ LET n == Len(tree.stack)
         f == tree.stack[n]
     IN IF f.todo # <<>>
        THEN LET cid == Head(f.todo)
                 g == [f EXCEPT !.todo = Tail(f.todo)]
             IN IF build_skips(tree, f, cid)
                THEN tree' = [tree EXCEPT !.stack[n] = g]
                ELSE tree' = [tree EXCEPT
                                !.stack = Append([tree.stack EXCEPT ![n] = [g EXCEPT !.cur = cid]],
                                                 build_enter(tree, cid, f.path))]
        ELSE IF n = 1
        THEN tree' = [tree EXCEPT
                        !.pc = "roots",
                        !.stack = <<>>,
                        !.roots = Append(@, tree_node(tree, f.node_id, f.built)),
                        !.seen_roots = @ \cup node_ids(tree, f.node_id),
                        !.rendered = @ \cup node_ids(tree, f.node_id),
                        !.ri = @ + 1]
        ELSE LET caller == tree.stack[n - 1]
                 cid == caller.cur
                 back == [caller EXCEPT
                            !.built = Append(@, tree_node(tree, cid, f.built)),
                            !.local_seen = @ \cup node_ids(tree, cid),
                            !.cur = NoneId]
             IN tree' = [tree EXCEPT
                           !.stack = Append(SubSeq(tree.stack, 1, n - 2), back),
                           !.rendered = @ \cup node_ids(tree, cid)]
  /\ UNCHANGED <<members, member_keys, relations, tree_versions, active_version,
                 auto_id, now, resp, hist, calls>>

(* ----------------------- get_tree: specification ----------------------- *)

TreeMemberIds == 1..MaxTreeMembers

\* an id no member document has (a deleted member)
DanglingId == MaxTreeMembers + 1

TreeIds == TreeMemberIds \cup {DanglingId}

TreeSpace == "s1"

TreeRelDocs ==
  {Rel(p, c, TreeSpace) : p \in {NoneId} \cup TreeIds, c \in TreeIds}

TreeRelBags ==
  {[d \in SeqToSet(s) |-> Cardinality({i \in DOMAIN s : s[i] = d})] :
     s \in UNION {[1..n -> TreeRelDocs] : n \in 0..MaxTreeRels}}

\* Any stored members (any spouse_id values) and any relation documents of
\* one space, as the starting point of one GET /tree.
InitTree ==
  /\ \E sp \in [TreeMemberIds -> {NoneId} \cup TreeIds] :
       members = [id \in TreeMemberIds |->
                    [space_id |-> TreeSpace, first_name |-> NameOfId(id),
                     last_name |-> "Lee", name_key |-> name_key(NameOfId(id), "Lee"),
                     spouse_id |-> sp[id]]]
  /\ member_keys = [k \in {<<TreeSpace, name_key(NameOfId(id), "Lee")>> : id \in TreeMemberIds} |->
                      [member_id |-> CHOOSE id \in TreeMemberIds : name_key(NameOfId(id), "Lee") = k[2],
                       space_id |-> TreeSpace]]
  /\ relations \in TreeRelBags
  /\ tree_versions = <<>>
  /\ active_version = NoneId
  /\ auto_id = MaxTreeMembers
  /\ now = -1
  /\ resp = Resp("init", 200, NoSpace)
  /\ hist = <<>>
  /\ tree = TreeIdle
  /\ calls = [p \in Procs |-> CallIdle]

NextTree ==
  \/ \E t \in Spaces : GetTreeLoad(t)
  \/ GetTreeRoot
  \/ GetTreeBuild

SpecTree == InitTree /\ [][NextTree]_vars

(* -------------------------- get_tree: claims --------------------------- *)

\* occurrences of member m, as a node's member or as its attached spouse, in a
\* list of nodes and everything below them
RECURSIVE Occurrences(_, _)
Occurrences(nodes, m) ==
  IF nodes = <<>> THEN 0
  ELSE LET node == Head(nodes)
       IN (IF node.member = m THEN 1 ELSE 0) + (IF node.spouse = m THEN 1 ELSE 0)
          + Occurrences(node.children, m) + Occurrences(Tail(nodes), m)

\* C2: the forest returned by GET /tree for a tenant contains every member of
\* that tenant exactly once, as a node's member or as its spouse, whatever the
\* members and relations of the tenant are.
C2_EveryMemberExactlyOnce ==
  tree.pc = "done" => \A m \in tree.member_ids : Occurrences(tree.roots, m) = 1

\* the calls of build in progress are for pairwise different ids: no call is
\* for an id on the path of the calls around it
BuildPathIdsDistinct ==
  tree.pc = "build" =>
    \A i, j \in 1..Len(tree.stack) :
      i < j => tree.stack[i].node_id # tree.stack[j].node_id

\* C3: GET /tree ends by returning a forest for every member and relation
\* set, cyclic ones included, and build is never entered for an id that is on
\* the current recursion path.
C3_AssembleReturnsForest == tree.pc # "error" /\ BuildPathIdsDistinct


\* the root nodes that show a or b, as the node's member or as its spouse
CoupleRoots(a, b) ==
  {i \in 1..Len(tree.roots) :
     tree.roots[i].member \in {a, b} \/ tree.roots[i].spouse \in {a, b}}

\* the existing members that are a child of a or of b
CoupleChildren(a, b) ==
  (SeqToSet(children_get(tree.children, a)) \cup SeqToSet(children_get(tree.children, b)))
    \cap tree.member_ids

\* the member ids of the child nodes of a node, in order
ChildMembers(node) == [k \in 1..Len(node.children) |-> node.children[k].member]

\* C12: for members a and b that are linked to each other as spouses and are
\* the child of no relation, the forest has exactly one root for the couple,
\* whose child nodes are exactly the existing members that are a child of a
\* or of b, each once, and none of those children is a root as well.
C12_CoupleIsOneRoot ==
  tree.pc = "done" =>
    \A a, b \in tree.member_ids :
      (/\ a # b
       /\ spouse_of_get(tree.spouse_of, a) = b
       /\ spouse_of_get(tree.spouse_of, b) = a
       /\ a \notin related_children(tree.children)
       /\ b \notin related_children(tree.children))
      => \E i \in 1..Len(tree.roots) :
           LET node == tree.roots[i]
               kids == ChildMembers(node)
           IN /\ CoupleRoots(a, b) = {i}
              /\ {node.member, node.spouse} = {a, b}
              /\ SeqToSet(kids) = CoupleChildren(a, b)
              /\ Cardinality(SeqToSet(kids)) = Len(kids)
              /\ \A j \in 1..Len(tree.roots) :
                   tree.roots[j].member \notin CoupleChildren(a, b)

\* some loaded relation names a parent or a child that is no loaded member
HasDanglingRelation ==
  /\ tree.pc # "idle"
  /\ \E p \in DOMAIN tree.children :
       \/ p # NoneId /\ p \notin tree.member_ids /\ tree.children[p] # <<>>
       \/ \E c \in SeqToSet(tree.children[p]) : c \notin tree.member_ids

\* C13: when a relation names a parent or child that is no loaded member,
\* GET /tree still returns a forest (no error), and the forest has no node
\* for an id that is no member.
C13_DanglingRelationsSkipped ==
  HasDanglingRelation =>
    /\ tree.pc # "error"
    /\ tree.pc = "done" =>
         \A id \in TreeIds \ tree.member_ids : Occurrences(tree.roots, id) = 0

(* -------------------- update_member, store call by store call ----------- *)

\* A rename request in progress: what the handler read and computed before
\* its first write (routes_tree.py 507-583).
RenameCall(pc, space_id, member_id, patch) ==
  LET cur == members[member_id]
      new_first == IF patch.first_name = UnsetName THEN cur.first_name ELSE patch.first_name
      new_last == IF patch.last_name = UnsetName THEN cur.last_name ELSE patch.last_name
  IN [pc |-> pc, space_id |-> space_id, member_id |-> member_id,
      first_name |-> new_first, last_name |-> new_last,
      old_key |-> cur.name_key, new_key |-> name_key(new_first, new_last)]

\* the request of process p ends with this status
CallEnds(p, status) ==
  /\ calls' = [calls EXCEPT ![p] = CallIdle]
  /\ resp' = Resp("update_member", status, calls[p].space_id)

CallGoes(p, pc) ==
  /\ calls' = [calls EXCEPT ![p].pc = pc]
  /\ UNCHANGED resp

\* routes_tree.py 507-583: read the member, check the space, compute the keys
UpdateMemberBegin(p, space_id, member_id, patch) ==
  /\ calls[p].pc = "idle"
  /\ IF ~Exists(member_id)
     THEN /\ resp' = Resp("update_member", 404, space_id)
          /\ UNCHANGED calls
     ELSE IF members[member_id].space_id # space_id
     THEN /\ resp' = Resp("update_member", 403, space_id)
          /\ UNCHANGED calls
     ELSE LET c == RenameCall("reserve", space_id, member_id, patch)
          IN /\ calls' = [calls EXCEPT ![p] =
                            IF c.new_key # c.old_key THEN c ELSE [c EXCEPT !.pc = "update"]]
             /\ UNCHANGED resp
  /\ UNCHANGED <<members, member_keys, relations, tree_versions, active_version,
                 auto_id, now, hist, tree>>

\* routes_tree.py 585-588: key_ref.create(...) succeeds or raises AlreadyExists
UpdateMemberReserve(p) ==
  LET c == calls[p]
      k == <<c.space_id, c.new_key>>
  IN /\ c.pc = "reserve"
     /\ IF k \notin DOMAIN member_keys
        THEN /\ member_keys' = Put(member_keys, k,
                                   [member_id |-> c.member_id, space_id |-> c.space_id])
             /\ CallGoes(p, "update")
        ELSE /\ UNCHANGED member_keys
             /\ CallGoes(p, "check")
     /\ UNCHANGED <<members, relations, tree_versions, active_version,
                    auto_id, now, hist, tree>>

\* routes_tree.py 589-596: after AlreadyExists, read the guard; a guard of
\* another member is a 409, a guard of this member or no guard lets go on
UpdateMemberCheck(p) ==
  LET c == calls[p]
      k == <<c.space_id, c.new_key>>
  IN /\ c.pc = "check"
     /\ IF k \in DOMAIN member_keys /\ member_keys[k].member_id # c.member_id
        THEN CallEnds(p, 409)
        ELSE CallGoes(p, "update")
     /\ UNCHANGED <<members, member_keys, relations, tree_versions, active_version,
                    auto_id, now, hist, tree>>

\* routes_tree.py 598-599, 608: ref.update(data); the update of a document
\* that is gone raises NotFound
UpdateMemberWrite(p) ==
  LET c == calls[p]
  IN /\ c.pc = "update"
     /\ IF ~Exists(c.member_id)
        THEN /\ UNCHANGED members
             /\ CallEnds(p, 500)
        ELSE /\ members' = [members EXCEPT ![c.member_id] =
                              [@ EXCEPT !.first_name = c.first_name,
                                        !.last_name = c.last_name,
                                        !.name_key = IF c.new_key # c.old_key
                                                     THEN c.new_key ELSE @]]
             /\ CallGoes(p, IF c.new_key # c.old_key THEN "release" ELSE "reply")
     /\ UNCHANGED <<member_keys, relations, tree_versions, active_version,
                    auto_id, now, hist, tree>>

\* routes_tree.py 600-606: delete the guard of the old key
UpdateMemberRelease(p) ==
  LET c == calls[p]
  IN /\ c.pc = "release"
     /\ member_keys' = Del(member_keys, <<c.space_id, c.old_key>>)
     /\ CallGoes(p, "reply")
     /\ UNCHANGED <<members, relations, tree_versions, active_version,
                    auto_id, now, hist, tree>>

\* routes_tree.py 615-616: read the member back for the response; the
\* document of a member deleted meanwhile has no fields to return
UpdateMemberReply(p) ==
  /\ calls[p].pc = "reply"
  /\ CallEnds(p, IF Exists(calls[p].member_id) THEN 200 ELSE 500)
  /\ UNCHANGED <<members, member_keys, relations, tree_versions, active_version,
                 auto_id, now, hist, tree>>

(* ------------------- concurrent renames: specification ----------------- *)

\* members ever created while renames run concurrently
MaxRenameMembers == 2

\* first names of the members and of the rename requests
RenameFirstNames == {"Ann", "Bob"}

\* Renames run store call by store call in two workers, interleaved with
\* each other and with whole create-member and delete-member requests.
NextRename ==
  \/ \E t \in Spaces, fn \in RenameFirstNames :
       /\ auto_id < MaxRenameMembers
       /\ CreateMember(t, fn, "Lee", NoneId)
  \/ \E t \in Spaces, id \in 1..MaxRenameMembers : DeleteMember(t, id)
  \/ \E p \in Procs, t \in Spaces, id \in 1..MaxRenameMembers, fn \in RenameFirstNames :
       UpdateMemberBegin(p, t, id, Patch(fn, UnsetName, UnsetId))
  \/ \E p \in Procs : UpdateMemberReserve(p)
  \/ \E p \in Procs : UpdateMemberCheck(p)
  \/ \E p \in Procs : UpdateMemberWrite(p)
  \/ \E p \in Procs : UpdateMemberRelease(p)
  \/ \E p \in Procs : UpdateMemberReply(p)

SpecRename == InitStore /\ [][NextRename]_vars

\* a guard for the key exists and names the member as its owner
GuardOwned(keys, space_id, key, member_id) ==
  /\ <<space_id, key>> \in DOMAIN keys
  /\ keys[<<space_id, key>>].member_id = member_id

\* C18: a rename writes the new name_key into the Member document only while
\* a guard for the new key exists that is owned by that member, and when a
\* rename has succeeded the member's guard for the old key is absent and its
\* guard for the new key is present.
C18_RenameUnderOwnGuard ==
  [][\A p \in Procs :
       /\ (calls[p].pc = "update" /\ calls'[p].pc = "release")
            => GuardOwned(member_keys, calls[p].space_id, calls[p].new_key,
                          calls[p].member_id)
       /\ (calls[p].pc = "reply" /\ calls'[p].pc = "idle" /\ resp'.status = 200
           /\ calls[p].new_key # calls[p].old_key)
            => /\ ~GuardOwned(member_keys', calls[p].space_id, calls[p].old_key,
                              calls[p].member_id)
               /\ GuardOwned(member_keys', calls[p].space_id, calls[p].new_key,
                             calls[p].member_id)
    ]_vars

(* ------------------- store failures inside a handler ------------------- *)

\* The store write of create_member's try block (routes_tree.py 465-478)
\* that raises: doc_ref.set, key_ref.set or spouse_ref.update.
CreateFaults == {"member", "owner", "spouse"}

\* routes_tree.py 439: the guard as create() writes it, before it has an owner
create_member_reserved(space_id, key) ==
  Put(member_keys, <<space_id, key>>, [member_id |-> NoneId, space_id |-> space_id])

\* routes_tree.py 480-485: key_ref.delete(), its own failure swallowed
create_member_rollback(keys, space_id, key, rollback_fails) ==
  IF rollback_fails THEN keys ELSE Del(keys, <<space_id, key>>)

\* routes_tree.py 465-490 with the write `at` raising:
\* [members, member_keys, auto_id] after the request
create_member_fault(space_id, first_name, last_name, spouse_id, at, rollback_fails) ==
  LET key == name_key(first_name, last_name)
      id == auto_id + 1
      doc == [space_id |-> space_id, first_name |-> first_name,
              last_name |-> last_name, name_key |-> key, spouse_id |-> spouse_id]
      written == IF at = "member" THEN members ELSE Put(members, id, doc)
      guard == IF at = "spouse" THEN create_member_keys(space_id, key, id)
               ELSE create_member_reserved(space_id, key)
  IN [members |-> written,
      member_keys |-> create_member_rollback(guard, space_id, key, rollback_fails),
      auto_id |-> IF at = "member" THEN auto_id ELSE id]

\* POST /tree/members in which a store write raises: the request has passed
\* the checks of lines 413-444, so the write is reached.
CreateMemberFault(space_id, first_name, last_name, spouse_id, at, rollback_fails) ==
  LET r == create_member_fault(space_id, first_name, last_name, spouse_id,
                               at, rollback_fails)
  IN /\ create_member_status(space_id, first_name, last_name, spouse_id) = 200
     /\ at = "spouse" => spouse_id # NoneId
     /\ members' = r.members
     /\ member_keys' = r.member_keys
     /\ auto_id' = r.auto_id
     /\ resp' = [Resp("create_member", 500, space_id) EXCEPT
                   !.detail = "Failed to create member",
                   !.key = name_key(first_name, last_name), !.first_name = first_name]
     /\ UNCHANGED <<relations, tree_versions, active_version, now, hist, tree, calls>>

\* routes_tree.py 585-608 with ref.update(data) raising: the spouse clear and
\* the reservation of the new key are written already, nothing undoes them
update_member_fault(space_id, member_id, patch) ==
  LET cur == members[member_id]
      new_first == IF patch.first_name = UnsetName THEN cur.first_name ELSE patch.first_name
      new_last == IF patch.last_name = UnsetName THEN cur.last_name ELSE patch.last_name
      new_key == name_key(new_first, new_last)
      k == <<space_id, new_key>>
  IN [members |-> update_member_clear(member_id, patch),
      member_keys |-> IF new_key = cur.name_key \/ k \in DOMAIN member_keys
                      THEN member_keys
                      ELSE Put(member_keys, k,
                               [member_id |-> member_id, space_id |-> space_id])]

\* PATCH /tree/members/{id} in which ref.update(data) raises: the request
\* has passed every check before line 600 / 608.
UpdateMemberFault(space_id, member_id, patch) ==
  /\ update_member(space_id, member_id, patch).status = 200
  /\ LET r == update_member_fault(space_id, member_id, patch)
     IN /\ members' = r.members
        /\ member_keys' = r.member_keys
  /\ resp' = Resp("update_member", 500, space_id)
  /\ UNCHANGED <<relations, tree_versions, active_version, auto_id, now, hist, tree, calls>>

(* --------------------- store failures: specification ------------------- *)

\* members ever written while store writes may fail
MaxFaultMembers == 2

\* Requests run one after the other; a create or an update may hit a store
\* write that raises.
NextFault ==
  \/ \E t \in Spaces, fn \in RenameFirstNames, sp \in {NoneId} \cup (1..MaxFaultMembers) :
       /\ auto_id < MaxFaultMembers
       /\ CreateMember(t, fn, "Lee", sp)
  \/ \E t \in Spaces, fn \in RenameFirstNames, sp \in {NoneId} \cup (1..MaxFaultMembers),
        at \in CreateFaults, rollback_fails \in BOOLEAN :
       /\ auto_id < MaxFaultMembers
       /\ CreateMemberFault(t, fn, "Lee", sp, at, rollback_fails)
  \/ \E t \in Spaces, id \in 1..MaxFaultMembers, fn \in RenameFirstNames :
       UpdateMember(t, id, Patch(fn, UnsetName, UnsetId))
  \/ \E t \in Spaces, id \in 1..MaxFaultMembers, fn \in RenameFirstNames :
       UpdateMemberFault(t, id, Patch(fn, UnsetName, UnsetId))
  \/ \E t \in Spaces, id \in 1..MaxFaultMembers : DeleteMember(t, id)

SpecFault == InitStore /\ [][NextFault]_vars

\* a Member document of the space carries the key
KeyUsed(docs, space_id, key) ==
  \E m \in DOMAIN docs : docs[m].space_id = space_id /\ docs[m].name_key = key

\* C19: whenever create-member's write of the Member document has failed
\* after the guard was reserved, no guard for that (tenant, name_key) exists
\* after the request, no Member with that key exists, and a later
\* create-member with the same name passes its checks.
C19_GuardRolledBack ==
  [][\A t \in Spaces, fn \in RenameFirstNames, sp \in {NoneId} \cup (1..MaxFaultMembers),
        rollback_fails \in BOOLEAN :
       CreateMemberFault(t, fn, "Lee", sp, "member", rollback_fails)
         => /\ <<t, name_key(fn, "Lee")>> \notin DOMAIN member_keys'
            /\ ~KeyUsed(members', t, name_key(fn, "Lee"))
            /\ create_member_status(t, fn, "Lee", NoneId)' = 200
    ]_vars

\* C20: when, during a rename, the update of the Member document fails after
\* the guard for the new key was reserved, the member keeps its old name_key
\* and its old guard, and no guard for the new key remains.
C20_RenameRolledBack ==
  [][\A t \in Spaces, id \in 1..MaxFaultMembers, fn \in RenameFirstNames :
       (/\ UpdateMemberFault(t, id, Patch(fn, UnsetName, UnsetId))
        /\ name_key(fn, members[id].last_name) # members[id].name_key
        /\ <<t, name_key(fn, members[id].last_name)>> \notin DOMAIN member_keys)
         => /\ members'[id].name_key = members[id].name_key
            /\ GuardOwned(member_keys', t, members[id].name_key, id)
            /\ <<t, name_key(fn, members[id].last_name)>> \notin DOMAIN member_keys'
    ]_vars

(* ------------------------- backfill_versions --------------------------- *)

\* routes_tree.py 366-368: order_by("created_at", ASCENDING), the place of
\* version v in the stream (created_at compared as a string)
backfill_place(v) ==
  1 + Cardinality({o \in DOMAIN tree_versions :
                     StrLess(tree_versions[o].created_at, tree_versions[v].created_at)})

\* routes_tree.py 370-373: update({"version": v}) for every document, v = 1..N
backfill_versions ==
  [v \in DOMAIN tree_versions |-> [tree_versions[v] EXCEPT !.version = backfill_place(v)]]

\* POST /tree/versions/backfill
BackfillVersions(space_id) ==
  /\ tree_versions' = backfill_versions
  /\ resp' = Resp("backfill", 200, space_id)
               @@ [updated |-> Len(tree_versions), total |-> Len(tree_versions)]
  /\ UNCHANGED <<members, member_keys, relations, active_version, auto_id, now,
                 hist, tree, calls>>

(* ---------------- versions of legacy data: specification --------------- *)

\* TreeVersion documents that exist before the first request
MaxLegacy == 2
\* clock readings at which they were created
MaxLegacyTick == 2
\* TreeVersion documents written by save() on top of them
MaxLegacySaves == 1

\* int(data.get("version") or 0) of a legacy document: 0 stands for a missing
\* or zero version field
LegacyVersionNumbers == {0, 1, 2}

\* the relation collections and the stored snapshots of the legacy data
LegacyRelations == {EmptyBag, SetToBag({Rel(NoneId, 1, "s1")}),
                    SetToBag({Rel(NoneId, 1, "s1"), Rel(1, 2, "s1")})}

LegacyDocs ==
  [created_at : {to_iso_string(t) : t \in 0..MaxLegacyTick},
   relations : {SortPairs(StripSpace(B)) : B \in LegacyRelations},
   version : LegacyVersionNumbers]

\* Legacy data: versions written before version numbers and the active
\* version pointer existed, each at its own clock reading.
InitLegacy ==
  /\ members = EmptyFn
  /\ member_keys = EmptyFn
  /\ relations \in LegacyRelations
  /\ tree_versions \in UNION {[1..n -> LegacyDocs] : n \in 0..MaxLegacy}
  /\ \A i, j \in DOMAIN tree_versions :
       i # j => tree_versions[i].created_at # tree_versions[j].created_at
  /\ active_version = NoneId
  /\ auto_id = 0
  /\ now = MaxLegacyTick
  /\ resp = Resp("init", 200, NoSpace)
  /\ hist = [v \in DOMAIN tree_versions |-> [space |-> NoSpace, pairs |-> {}]]
  /\ tree = TreeIdle
  /\ calls = [p \in Procs |-> CallIdle]

NextLegacy ==
  \/ \E t \in Spaces :
       /\ Cardinality({v \in DOMAIN hist : hist[v].space # NoSpace}) < MaxLegacySaves
       /\ SaveTree(t, now + 1)
  \/ \E t \in Spaces, v \in 1..(MaxLegacy + MaxLegacySaves) : RecoverTree(t, v)
  \/ \E t \in Spaces : UnsavedChanges(t)
  \/ \E t \in Spaces : BackfillVersions(t)

SpecLegacy == InitLegacy /\ [][NextLegacy]_vars

\* the clock reading a created_at string was written at
TimeOf(created_at) ==
  created_at[1] * TicksPerSec + (IF Len(created_at) = 2 THEN 0 ELSE created_at[3])

\* the TreeVersion created last
MostRecentVersion ==
  CHOOSE v \in DOMAIN tree_versions :
    \A o \in DOMAIN tree_versions :
      TimeOf(tree_versions[o].created_at) <= TimeOf(tree_versions[v].created_at)

\* C21: once save() has written a TreeVersion document, no later request
\* changes a field of it or deletes it.
C21_VersionsWriteOnce ==
  [][\A v \in DOMAIN tree_versions :
       hist[v].space # NoSpace
         => /\ v \in DOMAIN tree_versions'
            /\ tree_versions'[v] = tree_versions[v]
    ]_vars

\* C22: backfill leaves the N existing versions numbered exactly 1..N in the
\* order of their creation, the oldest with 1, and reports updated = total = N.
C22_BackfillNumbersInOrder ==
  [][\A t \in Spaces :
       BackfillVersions(t)
         => /\ resp'.updated = Len(tree_versions) /\ resp'.total = Len(tree_versions)
            /\ DOMAIN tree_versions' = DOMAIN tree_versions
            /\ {tree_versions'[v].version : v \in DOMAIN tree_versions'}
                 = 1..Len(tree_versions)
            /\ \A i, j \in DOMAIN tree_versions :
                 TimeOf(tree_versions[i].created_at) < TimeOf(tree_versions[j].created_at)
                   => tree_versions'[i].version < tree_versions'[j].version
    ]_vars

\* C23: isUnsaved() without an active version pointer: with at least one
\* version it sets the pointer to the version created last and returns true
\* exactly when that version's snapshot differs from the live snapshot; with
\* no version it returns false and writes nothing.
C23_LazyAdoption ==
  [][\A t \in Spaces :
       (UnsavedChanges(t) /\ active_version = NoneId)
         => IF tree_versions # <<>>
            THEN /\ active_version' = MostRecentVersion
                 /\ resp'.unsaved
                      <=> (tree_versions[MostRecentVersion].relations # snapshot_relations)
            ELSE /\ ~resp'.unsaved
                 /\ UNCHANGED <<members, member_keys, relations, tree_versions,
                                active_version>>
    ]_vars

(* ---------------------- save_tree, store call by store call ------------ *)

\* routes_tree.py 316: rels = _snapshot_relations(db)
SaveBegin(p, space_id) ==
  /\ calls[p].pc = "idle"
  /\ calls' = [calls EXCEPT ![p] =
                 [pc |-> "number", space_id |-> space_id, rels |-> snapshot_relations,
                  pairs |-> TenantPairs(space_id)]]
  /\ UNCHANGED <<members, member_keys, relations, tree_versions, active_version,
                 auto_id, now, resp, hist, tree>>

\* routes_tree.py 318-319: the clock reading and _next_version_number(db)
SaveNumber(p, utc_now) ==
  /\ calls[p].pc = "number"
  /\ utc_now > now
  /\ now' = utc_now
  /\ calls' = [calls EXCEPT ![p] =
                 [pc |-> "write", space_id |-> calls[p].space_id,
                  pairs |-> calls[p].pairs,
                  doc |-> [created_at |-> to_iso_string(utc_now),
                           relations |-> calls[p].rels,
                           version |-> next_version_number]]]
  /\ UNCHANGED <<members, member_keys, relations, tree_versions, active_version,
                 auto_id, resp, hist, tree>>

\* routes_tree.py 320: doc.set({"created_at", "relations", "version"})
SaveWrite(p) ==
  /\ calls[p].pc = "write"
  /\ tree_versions' = Append(tree_versions, calls[p].doc)
  /\ hist' = Append(hist, [space |-> calls[p].space_id, pairs |-> calls[p].pairs])
  /\ calls' = [calls EXCEPT ![p] =
                 [pc |-> "point", space_id |-> calls[p].space_id,
                  version_id |-> Len(tree_versions) + 1,
                  version |-> calls[p].doc.version]]
  /\ UNCHANGED <<members, member_keys, relations, active_version, auto_id, now,
                 resp, tree>>

\* routes_tree.py 323-325: the pointer write and the response
SavePoint(p) ==
  /\ calls[p].pc = "point"
  /\ active_version' = save_tree_active(calls[p].version_id)
  /\ resp' = [Resp("save", 200, calls[p].space_id) EXCEPT
                !.version_id = calls[p].version_id, !.version = calls[p].version]
  /\ calls' = [calls EXCEPT ![p] = CallIdle]
  /\ UNCHANGED <<members, member_keys, relations, tree_versions, auto_id, now,
                 hist, tree>>

(* --------------------- concurrent saves: specification ----------------- *)

\* save() requests started while saves run concurrently
MaxConcurrentSaves == 3

\* the requests in progress
InFlight == {p \in Procs : calls[p].pc # "idle"}

\* Two workers run save() store call by store call; every clock reading is
\* later than the one before.
NextSaves ==
  \/ \E p \in Procs, t \in Spaces :
       /\ Len(tree_versions) + Cardinality(InFlight) < MaxConcurrentSaves
       /\ SaveBegin(p, t)
  \/ \E p \in Procs : SaveNumber(p, now + 1)
  \/ \E p \in Procs : SaveWrite(p)
  \/ \E p \in Procs : SavePoint(p)

SpecSaves == InitStore /\ [][NextSaves]_vars

\* C24: the version numbers that concurrently running save() requests of one
\* tenant return (and store) are pairwise distinct.
C24_ConcurrentSavesDistinct ==
  \A i, j \in DOMAIN tree_versions :
    (i # j /\ hist[i].space = hist[j].space)
      => tree_versions[i].version # tree_versions[j].version

(* --------------------- set_spouse, store call by store call ------------ *)

\* the set_spouse request of process p ends with this status
SpouseEnds(p, status) ==
  /\ calls' = [calls EXCEPT ![p] = CallIdle]
  /\ resp' = Resp("set_spouse", status, calls[p].space_id)

\* the request goes on to its next store call; wrote: a Member write is done
SpouseGoes(p, pc, wrote) ==
  /\ calls' = [calls EXCEPT ![p].pc = pc, ![p].wrote = wrote]
  /\ UNCHANGED resp

\* routes_tree.py 682-695: read the member, check the space, pick the branch
SpouseBegin(p, space_id, member_id, spouse_id) ==
  /\ calls[p].pc = "idle"
  /\ IF ~Exists(member_id)
     THEN /\ resp' = Resp("set_spouse", 404, space_id)
          /\ UNCHANGED calls
     ELSE IF members[member_id].space_id # space_id
     THEN /\ resp' = Resp("set_spouse", 403, space_id)
          /\ UNCHANGED calls
     ELSE /\ calls' = [calls EXCEPT ![p] =
                         [pc |-> IF spouse_id = NoneId /\ members[member_id].spouse_id # NoneId
                                 THEN "clear_read"
                                 ELSE IF spouse_id # NoneId THEN "link_read"
                                 ELSE "own_write",
                          space_id |-> space_id, member_id |-> member_id,
                          spouse_id |-> spouse_id,
                          current_spouse |-> members[member_id].spouse_id,
                          wrote |-> FALSE]]
          /\ UNCHANGED resp
  /\ UNCHANGED <<members, member_keys, relations, tree_versions, active_version,
                 auto_id, now, hist, tree>>

\* routes_tree.py 698-702: read the current spouse
SpouseClearRead(p) ==
  LET c == calls[p]
  IN /\ c.pc = "clear_read"
     /\ IF Exists(c.current_spouse) /\ members[c.current_spouse].space_id = c.space_id
        THEN SpouseGoes(p, "clear_write", FALSE)
        ELSE SpouseGoes(p, "own_write", FALSE)
     /\ UNCHANGED <<members, member_keys, relations, tree_versions, active_version,
                    auto_id, now, hist, tree>>

\* routes_tree.py 703: sref.update({"spouse_id": None})
SpouseClearWrite(p) ==
  LET c == calls[p]
  IN /\ c.pc = "clear_write"
     /\ IF Exists(c.current_spouse)
        THEN /\ members' = Upd(members, c.current_spouse, "spouse_id", NoneId)
             /\ SpouseGoes(p, "own_write", TRUE)
        ELSE /\ UNCHANGED members
             /\ SpouseEnds(p, 500)
     /\ UNCHANGED <<member_keys, relations, tree_versions, active_version,
                    auto_id, now, hist, tree>>

\* routes_tree.py 709-716: read the new spouse, check it
SpouseLinkRead(p) ==
  LET c == calls[p]
  IN /\ c.pc = "link_read"
     /\ IF ~Exists(c.spouse_id) THEN SpouseEnds(p, 404)
        ELSE IF members[c.spouse_id].space_id # c.space_id THEN SpouseEnds(p, 403)
        ELSE SpouseGoes(p, "link_write", FALSE)
     /\ UNCHANGED <<members, member_keys, relations, tree_versions, active_version,
                    auto_id, now, hist, tree>>

\* routes_tree.py 718: sref.update({"spouse_id": member_id})
SpouseLinkWrite(p) ==
  LET c == calls[p]
  IN /\ c.pc = "link_write"
     /\ IF Exists(c.spouse_id)
        THEN /\ members' = Upd(members, c.spouse_id, "spouse_id", c.member_id)
             /\ SpouseGoes(p, "own_write", TRUE)
        ELSE /\ UNCHANGED members
             /\ SpouseEnds(p, 500)
     /\ UNCHANGED <<member_keys, relations, tree_versions, active_version,
                    auto_id, now, hist, tree>>

\* routes_tree.py 704-705, 720-721: ref.update({"spouse_id": ...}), return
SpouseOwnWrite(p) ==
  LET c == calls[p]
  IN /\ c.pc = "own_write"
     /\ IF Exists(c.member_id)
        THEN /\ members' = Upd(members, c.member_id, "spouse_id", c.spouse_id)
             /\ SpouseEnds(p, 200)
        ELSE /\ UNCHANGED members
             /\ SpouseEnds(p, 500)
     /\ UNCHANGED <<member_keys, relations, tree_versions, active_version,
                    auto_id, now, hist, tree>>

(* ------------------- concurrent setSpouse: specification --------------- *)

\* members created while setSpouse requests run concurrently
MaxSpouseMembers == 2

\* Members are created without a spouse; two workers run setSpouse requests
\* store call by store call.
NextSpouses ==
  \/ \E t \in Spaces :
       /\ auto_id < MaxSpouseMembers
       /\ InFlight = {}
       /\ CreateMember(t, NameOfId(auto_id + 1), "Lee", NoneId)
  \/ \E p \in Procs, t \in Spaces, m \in 1..MaxSpouseMembers,
        sp \in {NoneId} \cup (1..MaxSpouseMembers) :
       SpouseBegin(p, t, m, sp)
  \/ \E p \in Procs : SpouseClearRead(p)
  \/ \E p \in Procs : SpouseClearWrite(p)
  \/ \E p \in Procs : SpouseLinkRead(p)
  \/ \E p \in Procs : SpouseLinkWrite(p)
  \/ \E p \in Procs : SpouseOwnWrite(p)

SpecSpouses == InitStore /\ [][NextSpouses]_vars

\* member a names a spouse that does not name a back
Asymmetric(a) ==
  /\ members[a].spouse_id # NoneId
  /\ ~(Exists(members[a].spouse_id) /\ members[members[a].spouse_id].spouse_id = a)

\* C25: a member whose spouse does not point back is seen only while a
\* setSpouse request is between its two Member writes; when no setSpouse
\* request is in flight, every spouse link is symmetric.
C25_AsymmetryOnlyInFlight ==
  (\E a \in DOMAIN members : Asymmetric(a))
    => \E p \in Procs : calls[p].pc = "own_write" /\ calls[p].wrote

(* -------------------- recover_tree, store call by store call ----------- *)

\* the position after the delete loop has taken todo, or after the insert
\* loop has reached item k of rels
RecoverPc(todo, rels, k) ==
  IF todo # EmptyBag THEN "delete"
  ELSE IF k <= Len(rels) THEN "insert"
  ELSE "point"

\* the delete left out (mutation of recover_tree_delete)
recover_tree_delete_kept(B, d) == B

\* routes_tree.py 344: db.collection("relations").document(d.id).delete()
recover_tree_delete(B, d) == B (-) SetToBag({d})

\* routes_tree.py 336-340: read the version document
RecoverBegin(p, space_id, version_id) ==
  /\ calls[p].pc = "idle"
  /\ IF version_id \notin DOMAIN tree_versions
     THEN /\ resp' = [Resp("recover", 404, space_id) EXCEPT !.version_id = version_id]
          /\ UNCHANGED calls
     ELSE /\ calls' = [calls EXCEPT ![p] =
                         [pc |-> "stream", space_id |-> space_id,
                          version_id |-> version_id,
                          rels |-> tree_versions[version_id].relations,
                          todo |-> EmptyBag, before |-> EmptyBag, k |-> 1]]
          /\ UNCHANGED resp
  /\ UNCHANGED <<members, member_keys, relations, tree_versions, active_version,
                 auto_id, now, hist, tree>>

\* routes_tree.py 343: db.collection("relations").stream()
RecoverStream(p) ==
  LET c == calls[p]
  IN /\ c.pc = "stream"
     /\ calls' = [calls EXCEPT ![p].todo = relations,
                               ![p].before = TenantRelations(relations, c.space_id),
                               ![p].pc = RecoverPc(relations, c.rels, 1)]
     /\ UNCHANGED <<members, member_keys, relations, tree_versions, active_version,
                    auto_id, now, resp, hist, tree>>

\* routes_tree.py 343-344: one iteration of the delete loop
RecoverDelete(p) ==
  LET c == calls[p]
  IN /\ c.pc = "delete"
     /\ \E d \in BagToSet(c.todo) :
          LET rest == c.todo (-) SetToBag({d})
          IN /\ relations' = recover_tree_delete(relations, d)
             /\ calls' = [calls EXCEPT ![p].todo = rest,
                                       ![p].pc = RecoverPc(rest, c.rels, 1)]
     /\ UNCHANGED <<members, member_keys, tree_versions, active_version,
                    auto_id, now, resp, hist, tree>>

\* routes_tree.py 346-349: one iteration of the insert loop
RecoverInsert(p) ==
  LET c == calls[p]
      item == c.rels[c.k]
  IN /\ c.pc = "insert"
     /\ relations' = relations (+) SetToBag({Rel(item.parent_id, item.child_id, NoSpace)})
     /\ calls' = [calls EXCEPT ![p].k = c.k + 1,
                               ![p].pc = RecoverPc(EmptyBag, c.rels, c.k + 1)]
     /\ UNCHANGED <<members, member_keys, tree_versions, active_version,
                    auto_id, now, resp, hist, tree>>

\* routes_tree.py 352-354: the pointer write and the response
RecoverPoint(p) ==
  LET c == calls[p]
  IN /\ c.pc = "point"
     /\ active_version' = recover_tree_active(c.version_id)
     /\ resp' = [Resp("recover", 200, c.space_id) EXCEPT !.version_id = c.version_id]
     /\ calls' = [calls EXCEPT ![p] = CallIdle]
     /\ UNCHANGED <<members, member_keys, relations, tree_versions, auto_id, now,
                    hist, tree>>

(* ---------------- recover next to GET /tree: specification ------------- *)

\* members created before the recover
MaxRecoverMembers == 2
\* versions saved before the recover
MaxRecoverVersions == 1

\* One tenant builds relations and saves them, request after request; then a
\* recover runs store call by store call in a worker while one GET /tree is
\* evaluated next to it.
NextRecover ==
  \/ /\ auto_id < MaxRecoverMembers
     /\ InFlight = {} /\ tree.pc = "idle"
     /\ CreateMember(TreeSpace, NameOfId(auto_id + 1), "Lee", NoneId)
  \/ \E c \in 1..MaxRecoverMembers, np \in {NoneId} \cup (1..MaxRecoverMembers) :
       /\ InFlight = {} /\ tree.pc = "idle"
       /\ Move(TreeSpace, c, np)
  \/ /\ Len(tree_versions) < MaxRecoverVersions
     /\ InFlight = {} /\ tree.pc = "idle"
     /\ SaveTree(TreeSpace, now + 1)
  \/ \E p \in Procs, v \in 1..MaxRecoverVersions :
       /\ InFlight = {}
       /\ RecoverBegin(p, TreeSpace, v)
  \/ \E p \in Procs : RecoverStream(p)
  \/ \E p \in Procs : RecoverDelete(p)
  \/ \E p \in Procs : RecoverInsert(p)
  \/ \E p \in Procs : RecoverPoint(p)
  \/ GetTreeLoad(TreeSpace)
  \/ GetTreeRoot
  \/ GetTreeBuild

SpecRecover == InitStore /\ [][NextRecover]_vars

\* C26: recover is not atomic towards readers: a GET /tree that loads the
\* space when the delete loop of a recover is over and its insert loop has
\* not begun finds no relation at all.
C26_RecoverNotAtomic ==
  [][\A p \in Procs :
       (calls[p].pc = "insert" /\ calls[p].k = 1 /\ GetTreeLoad(calls[p].space_id))
         => DOMAIN tree'.children = {}
    ]_vars

\* a GET /tree has loaded an empty relation set of the tenant while a recover
\* stands between its two loops, although the tenant's relations before the
\* recover and the snapshot to restore both are non-empty
C26_Witness ==
  \E p \in Procs :
    /\ calls[p].pc = "insert" /\ calls[p].k = 1
    /\ calls[p].before # EmptyBag
    /\ calls[p].rels # <<>>
    /\ tree.pc # "idle" /\ tree.space = calls[p].space_id
    /\ DOMAIN tree.children = {}
    /\ tree.member_ids # {}

(* ---------------------- relations as a forest: claim ------------------- *)

\* the relation documents (copies counted) that name m as their child
ChildDocs(m) ==
  BagCardinality(FilterBag(relations, LAMBDA r : r.child_id = m))

\* the ids named by a relation document
RelIds == {r.child_id : r \in RelDocs} \cup ({r.parent_id : r \in RelDocs} \ {NoneId})

RECURSIVE BelowIds(_, _)
\* the ids reached from the set S over 1..n parent-to-child relations
BelowIds(S, n) ==
  IF n = 0 THEN {}
  ELSE LET kids == {r.child_id : r \in {x \in RelDocs : x.parent_id \in S}}
       IN kids \cup BelowIds(kids, n - 1)

\* C27: after any sequence of completed move, delete-member, save and recover
\* requests that starts with no relation, every member id is the child of at
\* most one relation document and no id is below itself.
C27_RelationsFormForest ==
  /\ \A m \in RelIds : ChildDocs(m) <= 1
  /\ \A m \in RelIds : m \notin BelowIds({m}, Cardinality(RelIds))

(* -------------------- create_member and its guard: claim --------------- *)

\* C28: when a create-member request has ended, with success or with an
\* error (a store failure at the guard-ownership write or at the spouse-link
\* write included), the Member document it wrote exists only together with
\* the guard of its (tenant, name_key).
C28_CreatedMemberHasGuard ==
  [][(resp'.op = "create_member" /\ auto_id' # auto_id /\ auto_id' \in DOMAIN members')
       => <<members'[auto_id'].space_id, members'[auto_id'].name_key>>
            \in DOMAIN member_keys'
    ]_vars

(* ------------------- rejected PATCH: specification and claim ----------- *)

\* members created before the PATCH requests
MaxPatchMembers == 2

\* Members are created with or without a spouse; PATCH requests rename,
\* link, clear, or do several of these at once.
NextPatch ==
  \/ \E t \in Spaces, fn \in RenameFirstNames, sp \in {NoneId} \cup (1..MaxPatchMembers) :
       /\ auto_id < MaxPatchMembers
       /\ CreateMember(t, fn, "Lee", sp)
  \/ \E t \in Spaces, id \in 1..(MaxPatchMembers + 1),
        fn \in RenameFirstNames \cup {UnsetName},
        sp \in {UnsetId, NoneId} \cup (1..(MaxPatchMembers + 1)) :
       UpdateMember(t, id, Patch(fn, UnsetName, sp))

SpecPatch == InitStore /\ [][NextPatch]_vars

\* C29: a PATCH members/{id} that is rejected (404, 409 on a rename
\* collision, 409 on a spouse already paired, 400) leaves every Member
\* document and every guard as it was, the spouse_id of the member's current
\* spouse included when the request also asked to clear the spouse.
C29_RejectedPatchChangesNothing ==
  [][(resp'.op = "update_member" /\ resp'.status \in {400, 404, 409})
       => /\ members' = members
          /\ member_keys' = member_keys
    ]_vars

(* ------------------- delete_member: specification and claim ------------ *)

\* members created before the deletes
MaxDeleteMembers == 2

\* Members are created with or without a spouse, moved and deleted, request
\* after request.
NextDelete ==
  \/ \E t \in Spaces, sp \in {NoneId} \cup (1..MaxDeleteMembers) :
       /\ auto_id < MaxDeleteMembers
       /\ CreateMember(t, NameOfId(auto_id + 1), "Lee", sp)
  \/ \E t \in Spaces, c \in 1..MaxDeleteMembers, np \in {NoneId} \cup (1..MaxDeleteMembers) :
       Move(t, c, np)
  \/ \E t \in Spaces, id \in 1..MaxDeleteMembers : DeleteMember(t, id)

SpecDelete == InitStore /\ [][NextDelete]_vars

\* C30: after a successful delete-member(m) no relation names m as its
\* parent or its child and no remaining Member has spouse_id = m.
C30_DeleteLeavesNoReference ==
  [][\A t \in Spaces, m \in 1..MaxDeleteMembers :
       (DeleteMember(t, m) /\ resp'.status = 200)
         => /\ \A r \in BagToSet(relations') : r.parent_id # m /\ r.child_id # m
            /\ \A o \in DOMAIN members' : members'[o].spouse_id # m
    ]_vars

====
